---------------------------- MODULE Spec2Model ----------------------------
(***************************************************************************)
(* Model of pyqode/python/editor.py: the QPythonCodeEdit widget.           *)
(*                                                                         *)
(*   - QPythonCodeEdit.__init__  : installs a fixed list of modes/panels   *)
(*   - use_dark_style / use_white_style, set_dark_color_scheme /           *)
(*     set_white_color_scheme : write a theme into module-level style      *)
(*     state and ask the widget to refresh                                 *)
(*   - detect_encoding : PEP 263 scan of a file's content                  *)
(*                                                                         *)
(* Text is modelled as a sequence of one-character tokens.  Control        *)
(* characters and non-ASCII items are named: "LF", "CR", "VT" are the      *)
(* characters \n, \r, \x0b; "xC3", "xA9", "xFF" are single bytes of a      *)
(* byte string; "U+E9" is the character e-acute of a text string.          *)
(***************************************************************************)
EXTENDS Integers, Sequences, FiniteSets, TLC

VARIABLES
    \* ---- detect_encoding ----
    py_major,      \* sys.version_info[0]
    data_kind,     \* type of the argument: "bytes" or "text"
    data,          \* the argument of detect_encoding
    fs_encoding,   \* what self.default_encoding() returns
    pc,            \* "ready" before the call, "done" after it
    outcome,       \* "pending", "returned" or "raised"
    result,        \* the returned encoding name (<<>> while there is none)
    raised,        \* name of the exception raised ("none" when none)
    \* ---- widgets and style ----
    installed,     \* per widget: the sequence of install_mode/install_panel calls
    style,         \* per owner: pyqode.python.style.__dict__ ('py_' attributes)
    core_style,    \* per owner: attributes of pyqode.core.style
    refresh_count, \* per widget: number of refresh_style() calls received
    rendered,      \* per widget: the style read by its last refresh_style()
    last_call,     \* the most recent operation
    dark_keys,     \* keys of DEFAULT_DARK_STYLES
    light_keys     \* keys of DEFAULT_LIGHT_STYLES

enc_vars == <<py_major, data_kind, data, fs_encoding, pc, outcome, result, raised>>
ed_vars == <<installed, style, core_style, refresh_count, rendered, last_call,
             dark_keys, light_keys>>
vars == <<py_major, data_kind, data, fs_encoding, pc, outcome, result, raised,
          installed, style, core_style, refresh_count, rendered, last_call,
          dark_keys, light_keys>>

(***************************************************************************)
(* Bounds                                                                  *)
(***************************************************************************)
MaxLines == 3

(***************************************************************************)
(* Characters                                                              *)
(***************************************************************************)
CODING == <<"c", "o", "d", "i", "n", "g">>
UTF8 == <<"u", "t", "f", "-", "8">>
CP1252 == <<"c", "p", "1", "2", "5", "2">>
LATIN1 == <<"l", "a", "t", "i", "n", "-", "1">>
MBCS == <<"m", "b", "c", "s">>

AsciiWord ==
    {"a", "b", "c", "d", "e", "f", "g", "h", "i", "j", "k", "l", "m", "n",
     "o", "p", "q", "r", "s", "t", "u", "v", "w", "x", "y", "z",
     "0", "1", "2", "3", "4", "5", "6", "7", "8", "9", "_"}

\* The pattern is a str pattern compiled without flags.  Under Python 3 a str
\* pattern is Unicode-aware: \w matches e-acute.  Under Python 2 it is ASCII.
IsWord(c, ver) == c \in AsciiWord \/ (ver = 3 /\ c = "U+E9")

\* \s
IsSpace(c) == c \in {" ", "TAB", "LF", "CR", "VT"}

\* [-\w.]
IsNameChar(c, ver) == c \in {"-", "."} \/ IsWord(c, ver)

\* . (any character but a newline)
IsDot(c) == c # "LF"

Max(S) == CHOOSE x \in S : \A y \in S : y <= x

(***************************************************************************)
(* detect_encoding (editor.py 128-140)                                     *)
(***************************************************************************)

\* bytes.decode("utf-8") restricted to the bytes of the model: ASCII bytes,
\* the two-byte sequence C3 A9 (e-acute), and bytes that are not valid there.
\* Returns [ok |-> BOOLEAN, text |-> decoded characters].
RECURSIVE Utf8DecodeFrom(_, _, _)
Utf8DecodeFrom(b, i, acc) ==
    IF i > Len(b) THEN [ok |-> TRUE, text |-> acc]
    ELSE IF b[i] = "xC3"
         THEN IF i + 1 <= Len(b) /\ b[i + 1] = "xA9"
              THEN Utf8DecodeFrom(b, i + 2, Append(acc, "U+E9"))
              ELSE [ok |-> FALSE, text |-> acc]
    ELSE IF b[i] \in {"xA9", "xFF"}
         THEN [ok |-> FALSE, text |-> acc]
    ELSE Utf8DecodeFrom(b, i + 1, Append(acc, b[i]))

decode_utf8(b) == Utf8DecodeFrom(b, 1, <<>>)

\* Line boundaries of splitlines(): a Python 3 str breaks on \n, \r, \r\n and
\* \x0b (and on further characters that the model's alphabet does not hold);
\* a Python 2 str or unicode string does not break on \x0b.
TextBreaks == {"LF", "CR", "VT"}
ByteBreaks == {"LF", "CR"}
LineBreaks(ver) == IF ver = 3 THEN TextBreaks ELSE ByteBreaks

\* The lines of s from position i on, the current line starting at start.
\* A line break ends the current line (\r\n counts as one break); what is
\* left after the last break is a line only if it is not empty.
RECURSIVE SplitFrom(_, _, _, _)
SplitFrom(s, start, i, breaks) ==
    IF i > Len(s)
    THEN IF start <= Len(s) THEN <<SubSeq(s, start, Len(s))>> ELSE <<>>
    ELSE IF s[i] \in breaks
         THEN LET next == IF s[i] = "CR" /\ i + 1 <= Len(s) /\ s[i + 1] = "LF"
                          THEN i + 2 ELSE i + 1
              IN <<SubSeq(s, start, i - 1)>> \o SplitFrom(s, next, next, breaks)
    ELSE SplitFrom(s, start, i + 1, breaks)

splitlines(s, ver) == SplitFrom(s, 1, 1, LineBreaks(ver))

\* The value of a failed match (re.match returns None).
NoMatch == <<>>

HasLiteral(l, pos, lit) ==
    /\ pos + Len(lit) - 1 <= Len(l)
    /\ \A k \in 1..Len(lit) : l[pos + k - 1] = lit[k]

\* Number of consecutive characters from pos that satisfy a class.
RECURSIVE SpaceRun(_, _)
SpaceRun(l, pos) ==
    IF pos <= Len(l) /\ IsSpace(l[pos]) THEN 1 + SpaceRun(l, pos + 1) ELSE 0

RECURSIVE NameRun(_, _, _)
NameRun(l, pos, ver) ==
    IF pos <= Len(l) /\ IsNameChar(l[pos], ver)
    THEN 1 + NameRun(l, pos + 1, ver) ELSE 0

RECURSIVE DotRun(_, _)
DotRun(l, pos) ==
    IF pos <= Len(l) /\ IsDot(l[pos]) THEN 1 + DotRun(l, pos + 1) ELSE 0

\* ([-\w.]+) at pos: greedy, at least one character; nothing follows it.
MatchGroup(l, pos, ver) ==
    LET n == NameRun(l, pos, ver)
    IN IF n >= 1 THEN SubSeq(l, pos, pos + n - 1) ELSE NoMatch

\* \s*([-\w.]+) with \s* having taken k characters; on failure give one back.
RECURSIVE MatchSpaces(_, _, _, _)
MatchSpaces(l, pos, k, ver) ==
    LET m == MatchGroup(l, pos + k, ver)
    IN IF m # NoMatch THEN m
       ELSE IF k = 0 THEN NoMatch
       ELSE MatchSpaces(l, pos, k - 1, ver)

\* coding[:=]\s*([-\w.]+) at pos
MatchCoding(l, pos, ver) ==
    IF /\ HasLiteral(l, pos, CODING)
       /\ pos + 6 <= Len(l)
       /\ l[pos + 6] \in {":", "="}
    THEN MatchSpaces(l, pos + 7, SpaceRun(l, pos + 7), ver)
    ELSE NoMatch

\* .* having taken k characters from pos; on failure give one back.
RECURSIVE MatchDotStar(_, _, _, _)
MatchDotStar(l, pos, k, ver) ==
    LET m == MatchCoding(l, pos + k, ver)
    IN IF m # NoMatch THEN m
       ELSE IF k = 0 THEN NoMatch
       ELSE MatchDotStar(l, pos, k - 1, ver)

\* The pattern tried at one start position: # then .* then the rest.
MatchAt(l, pos, ver) ==
    IF pos <= Len(l) /\ l[pos] = "#"
    THEN MatchDotStar(l, pos + 1, DotRun(l, pos + 1), ver)
    ELSE NoMatch

\* regexp.match(l).groups()[0]: the pattern tried at the start of l only.
regexp_match(l, ver) == MatchAt(l, 1, ver)

\* for l in data.splitlines(): ... if match: encoding = match.groups()[0]
RECURSIVE ScanLines(_, _, _, _)
ScanLines(lines, i, encoding, ver) ==
    IF i > Len(lines) THEN encoding
    ELSE LET m == regexp_match(lines[i], ver)
         IN ScanLines(lines, i + 1, IF m # NoMatch THEN m ELSE encoding, ver)

scan_lines(lines, i, encoding, ver) == ScanLines(lines, i, encoding, ver)

\* The whole call.  Under Python 3 a str argument has no decode method and
\* bytes that are not UTF-8 make decode raise; neither is caught.
detect_encoding(default, ver, kind, d) ==
    IF ver = 3 /\ kind = "text"
    THEN [outcome |-> "raised", raised |-> "AttributeError", result |-> <<>>]
    ELSE IF ver = 3 /\ ~decode_utf8(d).ok
    THEN [outcome |-> "raised", raised |-> "UnicodeDecodeError", result |-> <<>>]
    ELSE LET text == IF ver = 3 THEN decode_utf8(d).text ELSE d
         IN [outcome |-> "returned", raised |-> "none",
             result |-> scan_lines(splitlines(text, ver), 1, default, ver)]

(***************************************************************************)
(* Inputs of detect_encoding                                               *)
(***************************************************************************)
AsciiLines ==
    { <<"#", " ">> \o CODING \o <<":", " ">> \o UTF8,
      <<"#">> \o CODING \o <<"=">> \o CP1252,
      <<"#">> \o CODING \o <<":">> \o LATIN1,
      <<"x", "=", "1">>,
      <<>>,
      <<" ", "#">> \o CODING \o <<":">> \o UTF8,
      <<"#">> \o CODING \o <<":">>,
      <<"#">> \o CODING \o <<":">> \o UTF8 \o <<" ">> \o CODING \o <<"=">>
          \o CP1252 }

ByteLines ==
    AsciiLines \cup { <<"#">> \o CODING \o <<":", "xC3", "xA9">>,
                      <<"x", "=", "xFF">> }

TextLines == AsciiLines \cup { <<"#">> \o CODING \o <<":", "U+E9">> }

LinesOf(kind) == IF kind = "bytes" THEN ByteLines ELSE TextLines

Terminators == { <<"LF">>, <<"CR", "LF">>, <<"VT">> }

RECURSIVE Join(_, _, _, _)
Join(ls, i, term, trailing) ==
    IF i > Len(ls) THEN <<>>
    ELSE ls[i] \o (IF i < Len(ls) \/ trailing THEN term ELSE <<>>)
               \o Join(ls, i + 1, term, trailing)

Inputs(kind) ==
    { Join(ls, 1, term, trailing) :
        ls \in UNION { [1..n -> LinesOf(kind)] : n \in 0..MaxLines },
        term \in Terminators, trailing \in BOOLEAN }


(***************************************************************************)
(* Widgets, installed modes and panels (editor.py 71-106)                  *)
(***************************************************************************)
Widgets == {"w1", "w2"}

\* Where style attributes can live: the style modules (process-wide) or a
\* widget object.
Owners == {"module"} \cup Widgets

\* Every refresh_style() is counted; the count is capped to keep the model finite.
MaxRefresh == 2

Mode(name) == [kind |-> "mode", name |-> name, position |-> "default"]
Panel(name, position) == [kind |-> "panel", name |-> name, position |-> position]

\* api.install_mode(self, m) / api.install_panel(self, p, position): the host
\* framework attaches the component; the model keeps the order of the calls.
install(log, component) == Append(log, component)

\* __init__ with the document analyser installed after the panels.
QPythonCodeEdit_init_analyser_late ==
    << Panel("LineNumberPanel", "default"),
       Panel("MarkerPanel", "default"),
       Panel("SearchAndReplacePanel", "BOTTOM"),
       Panel("SymbolBrowserPanel", "TOP"),
       Mode("DocumentAnalyserMode"),
       Mode("CaretLineHighlighterMode"),
       Mode("FileWatcherMode"),
       Mode("RightMarginMode"),
       Mode("ZoomMode"),
       Mode("SymbolMatcherMode"),
       Mode("WordClickMode"),
       Mode("CodeCompletionMode"),
       Mode("PyHighlighterMode"),
       Mode("PyAutoCompleteMode"),
       Mode("PyAutoIndentMode"),
       Mode("FrostedCheckerMode"),
       Mode("PEP8CheckerMode"),
       Mode("CalltipsMode"),
       Mode("PyIndenterMode"),
       Mode("GoToAssignmentsMode"),
       Panel("QuickDocPanel", "BOTTOM"),
       Mode("CommentsMode") >>

\* __init__ with the comments mode installed before the quick-doc panel.
QPythonCodeEdit_init_comments_early ==
    << Mode("DocumentAnalyserMode"),
       Panel("LineNumberPanel", "default"),
       Panel("MarkerPanel", "default"),
       Panel("SearchAndReplacePanel", "BOTTOM"),
       Panel("SymbolBrowserPanel", "TOP"),
       Mode("CaretLineHighlighterMode"),
       Mode("FileWatcherMode"),
       Mode("RightMarginMode"),
       Mode("ZoomMode"),
       Mode("SymbolMatcherMode"),
       Mode("WordClickMode"),
       Mode("CodeCompletionMode"),
       Mode("PyHighlighterMode"),
       Mode("PyAutoCompleteMode"),
       Mode("PyAutoIndentMode"),
       Mode("FrostedCheckerMode"),
       Mode("PEP8CheckerMode"),
       Mode("CalltipsMode"),
       Mode("PyIndenterMode"),
       Mode("GoToAssignmentsMode"),
       Mode("CommentsMode"),
       Panel("QuickDocPanel", "BOTTOM") >>

\* The install calls of __init__, in the order of the source.
QPythonCodeEdit_init ==
    << Mode("DocumentAnalyserMode"),
       Panel("LineNumberPanel", "default"),
       Panel("MarkerPanel", "default"),
       Panel("SearchAndReplacePanel", "BOTTOM"),
       Panel("SymbolBrowserPanel", "TOP"),
       Mode("CaretLineHighlighterMode"),
       Mode("FileWatcherMode"),
       Mode("RightMarginMode"),
       Mode("ZoomMode"),
       Mode("SymbolMatcherMode"),
       Mode("WordClickMode"),
       Mode("CodeCompletionMode"),
       Mode("PyHighlighterMode"),
       Mode("PyAutoCompleteMode"),
       Mode("PyAutoIndentMode"),
       Mode("FrostedCheckerMode"),
       Mode("PEP8CheckerMode"),
       Mode("CalltipsMode"),
       Mode("PyIndenterMode"),
       Mode("GoToAssignmentsMode"),
       Panel("QuickDocPanel", "BOTTOM"),
       Mode("CommentsMode") >>

RECURSIVE InstallAll(_, _, _)
InstallAll(log, calls, i) ==
    IF i > Len(calls) THEN log
    ELSE InstallAll(install(log, calls[i]), calls, i + 1)

Constructed(w) == installed[w] # <<>>

(***************************************************************************)
(* Style state and the two colour schemes (editor.py 108-126, 143-188)     *)
(***************************************************************************)
\* Keys the two language palettes may hold.
Keys == {"keyword", "docstring"}

\* The 'py_' + k attributes of pyqode.python.style.
PyAttr(k) == <<"py_", k>>
PyAttrs == { PyAttr(k) : k \in Keys }

\* DEFAULT_DARK_STYLES[k] and DEFAULT_LIGHT_STYLES[k]
DEFAULT_DARK_STYLES(k) == <<"dark", k>>
DEFAULT_LIGHT_STYLES(k) == <<"light", k>>

\* The six attributes of pyqode.core.style both schemes assign, and one
\* attribute neither assigns.
SixAttrs ==
    {"background", "foreground", "caretLineBackground", "whiteSpaceForeground",
     "matchedBraceBackground", "matchedBraceForeground"}
CoreAttrs == SixAttrs \cup {"font"}

DarkGeneric ==
    [background |-> "#252525", foreground |-> "#A9B7C6",
     caretLineBackground |-> "#2d2d2d", whiteSpaceForeground |-> "#404040",
     matchedBraceBackground |-> "None", matchedBraceForeground |-> "#FF8647"]

LightGeneric ==
    [background |-> "#FFFFFF", foreground |-> "#000000",
     caretLineBackground |-> "#E4EDF8", whiteSpaceForeground |-> "#dddddd",
     matchedBraceBackground |-> "#B4EEB4", matchedBraceForeground |-> "#FF0000"]

\* The values the style modules hold before any scheme is applied.
InitialPy == [a \in PyAttrs |-> <<"initial", a[2]>>]
InitialCore == [a \in CoreAttrs |-> "initial"]

\* The scheme functions write to the style modules, whatever widget they are
\* given: style.__dict__[...] and core_style.<attr> are module globals.
StyleOwner_per_widget(code_edit) == code_edit

StyleOwner(code_edit) == "module"

\* for k, v in palette.items(): style.__dict__['py_' + k] = v, done by
\* rebuilding the dictionary from the palette alone.
write_palette_replacing(st, owner, keys, scheme) ==
    [st EXCEPT ![owner] =
        [a \in PyAttrs |-> IF a[2] \in keys
                           THEN (IF scheme = "dark" THEN DEFAULT_DARK_STYLES(a[2])
                                 ELSE DEFAULT_LIGHT_STYLES(a[2]))
                           ELSE InitialPy[a]]]

\* for k, v in palette.items(): style.__dict__['py_' + k] = v
write_palette(st, owner, keys, scheme) ==
    [st EXCEPT ![owner] =
        [a \in PyAttrs |-> IF a[2] \in keys
                           THEN (IF scheme = "dark" THEN DEFAULT_DARK_STYLES(a[2])
                                 ELSE DEFAULT_LIGHT_STYLES(a[2]))
                           ELSE @[a]]]

\* core_style.background = ...; ...; core_style.matchedBraceForeground = ...
write_generic(cs, owner, consts) ==
    [cs EXCEPT ![owner] =
        [a \in CoreAttrs |-> IF a \in SixAttrs THEN consts[a] ELSE @[a]]]

\* The six assignments of the light scheme without matchedBraceBackground.
write_generic_light_partial(cs, owner) ==
    [cs EXCEPT ![owner] =
        [a \in CoreAttrs |-> IF a \in SixAttrs \ {"matchedBraceBackground"}
                             THEN LightGeneric[a] ELSE @[a]]]

write_generic_light(cs, owner) == write_generic(cs, owner, LightGeneric)

\* What a widget reads when it renders.
StyleReadBy(w, st, cs) == [py |-> st[StyleOwner(w)], core |-> cs[StyleOwner(w)]]

\* code_edit.refresh_style(): the widget re-renders from the style state as
\* it is at the time of the call.
refresh_style(w, st, cs) ==
    /\ refresh_count' = [refresh_count EXCEPT ![w] = @ + 1]
    /\ rendered' = [rendered EXCEPT ![w] = StyleReadBy(w, st, cs)]

\* set_dark_color_scheme with refresh_style() called before the six
\* generic assignments.
set_dark_color_scheme_refresh_early(code_edit) ==
    LET s1 == write_palette(style, StyleOwner(code_edit), dark_keys, "dark")
        c1 == write_generic(core_style, StyleOwner(code_edit), DarkGeneric)
    IN /\ refresh_style(code_edit, s1, core_style)
       /\ style' = s1
       /\ core_style' = c1

set_dark_color_scheme(code_edit) ==
    LET s1 == write_palette(style, StyleOwner(code_edit), dark_keys, "dark")
        c1 == write_generic(core_style, StyleOwner(code_edit), DarkGeneric)
    IN /\ style' = s1
       /\ core_style' = c1
       /\ refresh_style(code_edit, s1, c1)

set_white_color_scheme(code_edit) ==
    LET s1 == write_palette(style, StyleOwner(code_edit), light_keys, "light")
        c1 == write_generic_light(core_style, StyleOwner(code_edit))
    IN /\ style' = s1
       /\ core_style' = c1
       /\ refresh_style(code_edit, s1, c1)

\* use_dark_style without the early return.
use_dark_style_ignoring_flag(w, use) == set_dark_color_scheme(w)

use_dark_style(w, use) ==
    IF ~use
    THEN UNCHANGED <<style, core_style, refresh_count, rendered>>
    ELSE set_dark_color_scheme(w)

use_white_style(w, use) ==
    IF ~use
    THEN UNCHANGED <<style, core_style, refresh_count, rendered>>
    ELSE set_white_color_scheme(w)

(***************************************************************************)
(* Actions                                                                 *)
(***************************************************************************)
\* QPythonCodeEdit(parent)
Construct(w) ==
    /\ ~Constructed(w)
    /\ installed' = [installed EXCEPT ![w] = InstallAll(<<>>, QPythonCodeEdit_init, 1)]
    /\ last_call' = [op |-> "init", w |-> w, use |-> FALSE, theme |-> last_call.theme]
    /\ UNCHANGED <<style, core_style, refresh_count, rendered, dark_keys, light_keys>>
    /\ UNCHANGED enc_vars

\* w.use_dark_style(use)
UseDarkStyle(w, use) ==
    /\ Constructed(w)
    /\ use => refresh_count[w] < MaxRefresh
    /\ last_call' = [op |-> "dark", w |-> w, use |-> use,
                     theme |-> IF use THEN "dark" ELSE last_call.theme]
    /\ use_dark_style(w, use)
    /\ UNCHANGED <<installed, dark_keys, light_keys>>
    /\ UNCHANGED enc_vars

\* w.use_white_style(use)
UseWhiteStyle(w, use) ==
    /\ Constructed(w)
    /\ use => refresh_count[w] < MaxRefresh
    /\ last_call' = [op |-> "white", w |-> w, use |-> use,
                     theme |-> IF use THEN "light" ELSE last_call.theme]
    /\ use_white_style(w, use)
    /\ UNCHANGED <<installed, dark_keys, light_keys>>
    /\ UNCHANGED enc_vars

\* w.detect_encoding(data)
DetectEncoding ==
    /\ pc = "ready"
    /\ LET r == detect_encoding(fs_encoding, py_major, data_kind, data)
       IN /\ outcome' = r.outcome
          /\ result' = r.result
          /\ raised' = r.raised
    /\ pc' = "done"
    /\ UNCHANGED <<py_major, data_kind, data, fs_encoding>>
    /\ UNCHANGED ed_vars

(***************************************************************************)
(* Specifications                                                          *)
(***************************************************************************)
EditorInit ==
    /\ installed = [w \in Widgets |-> <<>>]
    /\ style = [o \in Owners |-> InitialPy]
    /\ core_style = [o \in Owners |-> InitialCore]
    /\ refresh_count = [w \in Widgets |-> 0]
    /\ rendered = [w \in Widgets |-> [py |-> InitialPy, core |-> InitialCore]]
    /\ last_call = [op |-> "none", w |-> "none", use |-> FALSE, theme |-> "none"]

NoCall ==
    /\ pc = "ready"
    /\ outcome = "pending"
    /\ result = <<>>
    /\ raised = "none"

\* Widgets and themes; the palettes' key sets are any subsets of Keys.
Init ==
    /\ EditorInit
    /\ dark_keys \in SUBSET Keys
    /\ light_keys \in SUBSET Keys
    /\ py_major = 3
    /\ data_kind = "bytes"
    /\ data = <<>>
    /\ fs_encoding = UTF8
    /\ NoCall

Next ==
    \/ \E w \in Widgets : Construct(w)
    \/ \E w \in Widgets, use \in BOOLEAN : UseDarkStyle(w, use)
    \/ \E w \in Widgets, use \in BOOLEAN : UseWhiteStyle(w, use)

Spec == Init /\ [][Next]_vars

\* One call of detect_encoding on any input, under either interpreter.
InitEnc ==
    /\ EditorInit
    /\ dark_keys = Keys
    /\ light_keys = Keys
    /\ py_major \in {2, 3}
    /\ data_kind \in {"bytes", "text"}
    /\ data \in Inputs(data_kind)
    /\ fs_encoding \in {UTF8, MBCS}
    /\ NoCall

NextEnc == DetectEncoding

SpecEnc == InitEnc /\ [][NextEnc]_vars


(***************************************************************************)
(* Properties of detect_encoding                                           *)
(***************************************************************************)
\* The lines of the input: of the decoded text where Python 3 can decode the
\* bytes, of the argument itself otherwise (bytes that do not decode are
\* split as bytes are).
InputDecodes == py_major = 3 /\ data_kind = "bytes" /\ decode_utf8(data).ok
InputText == IF InputDecodes THEN decode_utf8(data).text ELSE data
InputLines ==
    SplitFrom(InputText, 1, 1,
              IF py_major = 3 /\ (data_kind = "text" \/ InputDecodes)
              THEN TextBreaks ELSE ByteBreaks)

\* The encoding declaration pattern ^#.*coding[:=]\s*([-\w.]+), stated by
\* positions: p is where "coding" starts, q where the name starts.
NameStart(l, p) ==
    { q \in (p + 7)..Len(l) :
        /\ IsNameChar(l[q], py_major)
        /\ \A j \in (p + 7)..(q - 1) : IsSpace(l[j]) }

DeclPositions(l) ==
    { p \in 2..Len(l) :
        /\ p + 6 <= Len(l)
        /\ SubSeq(l, p, p + 5) = CODING
        /\ l[p + 6] \in {":", "="}
        /\ \A j \in 2..(p - 1) : l[j] # "LF"
        /\ NameStart(l, p) # {} }

IsDeclaration(l) == Len(l) >= 1 /\ l[1] = "#" /\ DeclPositions(l) # {}

DeclaredName(l) ==
    LET p == Max(DeclPositions(l))
        q == CHOOSE x \in NameStart(l, p) : TRUE
        e == Max({ x \in q..Len(l) : \A j \in q..x : IsNameChar(l[j], py_major) })
    IN SubSeq(l, q, e)

MatchingLines == { i \in 1..Len(InputLines) : IsDeclaration(InputLines[i]) }

\* C1: for any input in which at least one line matches the encoding
\* declaration pattern, detect_encoding returns the name captured on the last
\* matching line.
C1_LastMatchWins ==
    (pc = "done" /\ MatchingLines # {})
        => /\ outcome = "returned"
           /\ result = DeclaredName(InputLines[Max(MatchingLines)])

\* C1, on the calls that return: the result is the name captured on the last
\* matching line, whatever the number of lines.
C1_LastMatchWinsWhenReturned ==
    (pc = "done" /\ outcome = "returned" /\ MatchingLines # {})
        => result = DeclaredName(InputLines[Max(MatchingLines)])

\* A call that returned cp1252 from a third line, after a line declaring utf-8.
C1_Returned_Witness ==
    /\ pc = "done"
    /\ outcome = "returned"
    /\ Len(InputLines) = 3
    /\ MatchingLines = {1, 3}
    /\ DeclaredName(InputLines[1]) = UTF8
    /\ DeclaredName(InputLines[3]) = CP1252
    /\ result = CP1252

\* C2: for any input in which no line matches the encoding declaration
\* pattern, detect_encoding returns the platform fallback encoding.
C2_FallbackWhenNoMatch ==
    (pc = "done" /\ MatchingLines = {})
        => /\ outcome = "returned"
           /\ result = fs_encoding

\* C2, on the calls that return.
C2_FallbackWhenReturned ==
    (pc = "done" /\ outcome = "returned" /\ MatchingLines = {})
        => result = fs_encoding

\* A call that returned the fallback for an input whose only "coding:" is on
\* a line that does not start with '#'.
C2_Returned_Witness ==
    /\ pc = "done"
    /\ outcome = "returned"
    /\ MatchingLines = {}
    /\ \E i \in 1..Len(InputLines) :
          /\ Len(InputLines[i]) >= 2
          /\ InputLines[i][1] # "#"
          /\ IsDeclaration(SubSeq(InputLines[i], 2, Len(InputLines[i])))
    /\ result = fs_encoding

\* C3: detect_encoding never raises and always returns an encoding name,
\* for bytes and for text, whether or not the bytes are valid UTF-8.
C3_NeverRaises ==
    pc = "done" => (outcome = "returned" /\ raised = "none" /\ Len(result) >= 1)

\* C3 under Python 2, where nothing is decoded.
C3_NeverRaisesPython2 ==
    (pc = "done" /\ py_major = 2) => (outcome = "returned" /\ Len(result) >= 1)

(***************************************************************************)
(* Properties of the widget                                                *)
(***************************************************************************)
IsStyleCall(c) == c.op \in {"dark", "white"}
SchemeKeys(op) == IF op = "dark" THEN dark_keys ELSE light_keys
SchemeValue(op, k) ==
    IF op = "dark" THEN DEFAULT_DARK_STYLES(k) ELSE DEFAULT_LIGHT_STYLES(k)
SchemeGeneric(op) == IF op = "dark" THEN DarkGeneric ELSE LightGeneric
ThemeOp(theme) == IF theme = "dark" THEN "dark" ELSE "white"

\* C4: use_dark_style(False) and use_white_style(False) change no style
\* attribute, generic or 'py_', and request no refresh_style.
C4_FalseCallIsNoOp ==
    [][ (IsStyleCall(last_call') /\ ~last_call'.use)
          => /\ style' = style
             /\ core_style' = core_style
             /\ refresh_count' = refresh_count
             /\ rendered' = rendered ]_vars

\* use_dark_style(False) made while the light scheme is in force.
C4_Witness ==
    /\ last_call.op = "dark"
    /\ ~last_call.use
    /\ last_call.theme = "light"
    /\ core_style["module"]["background"] = LightGeneric["background"]
    /\ refresh_count[last_call.w] = 0

\* C5: after any sequence of use_dark_style / use_white_style calls the six
\* generic attributes equal the constants of the most recent call whose flag
\* was true.
C5_LastWriteWins ==
    last_call.theme # "none"
        => \A a \in SixAttrs :
              core_style["module"][a] = SchemeGeneric(ThemeOp(last_call.theme))[a]

\* The light scheme applied after the dark one had been applied and rendered.
C5_Witness ==
    /\ last_call.op = "white"
    /\ last_call.use
    /\ \E w \in Widgets : rendered[w].core["matchedBraceBackground"] = "None"
    /\ core_style["module"]["matchedBraceBackground"] = "#B4EEB4"

\* C6: a constructed widget has DocumentAnalyserMode as the first entry of
\* its install log, and exactly once in it.
C6_AnalyserFirst ==
    \A w \in Widgets :
        Constructed(w)
            => /\ installed[w][1] = Mode("DocumentAnalyserMode")
               /\ Cardinality({ i \in DOMAIN installed[w] :
                      installed[w][i].name = "DocumentAnalyserMode" }) = 1

\* A constructed widget, with components installed after the analyser.
C6_Witness ==
    \E w \in Widgets :
        /\ Constructed(w)
        /\ Len(installed[w]) > 1
        /\ installed[w][2].kind = "panel"

GenericModes ==
    {"CaretLineHighlighterMode", "FileWatcherMode", "RightMarginMode", "ZoomMode",
     "SymbolMatcherMode", "WordClickMode", "CodeCompletionMode"}

IndexOf(log, name) == CHOOSE i \in DOMAIN log : log[i].name = name

NamesOf(log) == [i \in DOMAIN log |-> log[i].name]

\* The language-specific modes of log are exactly order, in that order; the
\* generic modes come before them; the quick-doc panel (BOTTOM) follows the
\* last of them and the comments mode is the last install.
InstallOrder(log, order) ==
    LET InOrder(n) == \E i \in DOMAIN order : order[i] = n
    IN /\ SelectSeq(NamesOf(log), InOrder) = order
       /\ \A g \in GenericModes :
             /\ \E i \in DOMAIN log : log[i].name = g
             /\ IndexOf(log, g) < IndexOf(log, order[1])
       /\ \A i \in DOMAIN log : log[i].name \in GenericModes => log[i].kind = "mode"
       /\ \A i \in DOMAIN log : InOrder(log[i].name) => log[i].kind = "mode"
       /\ log[IndexOf(log, order[Len(order)]) + 1] = Panel("QuickDocPanel", "BOTTOM")
       /\ log[Len(log) - 1] = Panel("QuickDocPanel", "BOTTOM")
       /\ log[Len(log)] = Mode("CommentsMode")

\* C7, as claimed: highlighter, auto-complete, auto-indent, PEP8 checker,
\* Frosted checker, call-tips, indenter, go-to-assignment; after the generic
\* modes; then the quick-doc panel (BOTTOM); then the comments mode, last.
C7_OrderAsClaimed ==
    \A w \in Widgets :
        Constructed(w)
            => InstallOrder(installed[w],
                   <<"PyHighlighterMode", "PyAutoCompleteMode", "PyAutoIndentMode",
                     "PEP8CheckerMode", "FrostedCheckerMode", "CalltipsMode",
                     "PyIndenterMode", "GoToAssignmentsMode">>)

\* C7, amended: the same with the Frosted checker before the PEP8 checker.
C7_OrderInSource ==
    \A w \in Widgets :
        Constructed(w)
            => InstallOrder(installed[w],
                   <<"PyHighlighterMode", "PyAutoCompleteMode", "PyAutoIndentMode",
                     "FrostedCheckerMode", "PEP8CheckerMode", "CalltipsMode",
                     "PyIndenterMode", "GoToAssignmentsMode">>)

\* A constructed widget whose Frosted checker is installed right before its
\* PEP8 checker.
C7_Witness ==
    \E w \in Widgets :
        /\ Constructed(w)
        /\ IndexOf(installed[w], "PEP8CheckerMode")
              = IndexOf(installed[w], "FrostedCheckerMode") + 1

\* C8: a theme application with flag true writes every key of the chosen
\* palette under its 'py_' name with the palette's value, and leaves every
\* other 'py_' attribute and every generic attribute but the six as it was.
C8_PaletteWrittenRestKept ==
    [][ (IsStyleCall(last_call') /\ last_call'.use)
          => LET op == last_call'.op
             IN /\ \A k \in Keys :
                      style'["module"][PyAttr(k)] =
                          IF k \in SchemeKeys(op) THEN SchemeValue(op, k)
                          ELSE style["module"][PyAttr(k)]
                /\ \A a \in CoreAttrs \ SixAttrs :
                      core_style'["module"][a] = core_style["module"][a] ]_vars

\* The light scheme is in force and a key that only the dark palette holds
\* still has its dark value.
C8_Witness ==
    /\ last_call.op = "white"
    /\ last_call.use
    /\ \E k \in dark_keys \ light_keys :
          style["module"][PyAttr(k)] = DEFAULT_DARK_STYLES(k)
    /\ \E k \in light_keys :
          style["module"][PyAttr(k)] = DEFAULT_LIGHT_STYLES(k)

\* C9: once a theme has been applied through any widget, every widget,
\* constructed before or after, reads that theme: its six generic attributes
\* and the keys of its palette.
C9_OneStoreForAllWidgets ==
    last_call.theme # "none"
        => \A w \in Widgets :
              LET seen == StyleReadBy(w, style, core_style)
                  op == ThemeOp(last_call.theme)
              IN /\ \A a \in SixAttrs : seen.core[a] = SchemeGeneric(op)[a]
                 /\ \A k \in SchemeKeys(op) : seen.py[PyAttr(k)] = SchemeValue(op, k)

\* A widget constructed after the dark scheme was applied through another
\* widget reads the dark scheme.
C9_Witness ==
    /\ last_call.op = "init"
    /\ last_call.theme = "dark"
    /\ dark_keys # {}
    /\ refresh_count[last_call.w] = 0
    /\ \E v \in Widgets \ {last_call.w} : refresh_count[v] > 0
    /\ StyleReadBy(last_call.w, style, core_style).core["background"] = "#252525"

\* C10: a theme application with flag true requests refresh_style exactly
\* once, on the widget of the call only, and the style state that refresh
\* reads is the complete target theme, with no write after it.
C10_RefreshOnceAfterWrites ==
    [][ (IsStyleCall(last_call') /\ last_call'.use)
          => LET op == last_call'.op
                 w == last_call'.w
             IN /\ refresh_count'[w] = refresh_count[w] + 1
                /\ \A v \in Widgets \ {w} :
                      /\ refresh_count'[v] = refresh_count[v]
                      /\ rendered'[v] = rendered[v]
                /\ \A a \in SixAttrs : rendered'[w].core[a] = SchemeGeneric(op)[a]
                /\ \A k \in SchemeKeys(op) :
                      rendered'[w].py[PyAttr(k)] = SchemeValue(op, k)
                /\ rendered'[w].py = style'["module"]
                /\ rendered'[w].core = core_style'["module"] ]_vars

\* The dark scheme applied through one widget while another widget, which
\* rendered the light scheme before, has not been asked to refresh.
C10_Witness ==
    /\ last_call.op = "dark"
    /\ last_call.use
    /\ rendered[last_call.w].core["background"] = "#252525"
    /\ \E v \in Widgets \ {last_call.w} :
          /\ refresh_count[v] = 1
          /\ rendered[v].core["background"] = "#FFFFFF"


=============================================================================
